---- MODULE Spec2Model ----
(***************************************************************************)
(* The AI analysis orchestration of amira_analysis/analyzers/ai.py:        *)
(* AIConversationAnalyzer.analyze_async fans one task per conversation out *)
(* to _analyze_single_conversation (cache check, semaphore, Judge call,    *)
(* save, conversion to issues), collects the results in completion order   *)
(* and builds the QualityAnalysis; models.py QualityAnalysis.to_dict       *)
(* derives the summary statistics.                                         *)
(***************************************************************************)
EXTENDS Integers, Sequences, FiniteSets, Bags, TLC

\* ---------------------------------------------------------------- bounds
MaxConvs == 2
MaxConcurrency == 2
MaxRuns == 2

\* ------------------------------------------------------ program constants
DEFAULT_AI_MAX_RETRIES == 4

\* --------------------------------------------------------------- the data
ConvName == <<"c1", "c2", "c3", "c4">>
ConvIds == {ConvName[k] : k \in 1..MaxConvs}

\* Enum members are written by their member names; the record gives each
\* member's value, which is what model_dump(mode="json") writes.
IssueTypeEnum ==
    [OBVIOUS_WRONG_ANSWER |-> "OBVIOUS_WRONG_ANSWER",
     MISSED_ESCALATION |-> "MISSED_ESCALATION",
     DUMB_QUESTION |-> "DUMB_QUESTION",
     REPETITIVE |-> "REPETITIVE",
     LACK_OF_ENCOURAGEMENT |-> "LACK_OF_ENCOURAGEMENT",
     DEAD_END |-> "DEAD_END"]

SeverityLevel == [LOW |-> "low", MEDIUM |-> "medium", HIGH |-> "high"]

VerdictEnum == [PASS |-> "PASS", FAIL |-> "FAIL"]

\* constants.IssueType: the values the reporting side uses.
IssueType ==
    [REPETITIVE |-> "repetitive",
     UNHELPFUL |-> "unhelpful",
     TOO_MANY_TURNS |-> "too_many_turns",
     DEAD_END |-> "dead_end",
     NEGATIVE_RATING |-> "negative_rating",
     OBVIOUS_WRONG_ANSWER |-> "obvious_wrong_answer",
     MISSED_ESCALATION |-> "missed_escalation",
     DUMB_QUESTION |-> "dumb_question",
     LACK_OF_ENCOURAGEMENT |-> "lack_of_encouragement",
     INTENT_MISRECOGNITION |-> "intent_misrecognition"]

\* The list fields of QualityAnalysis.
Categories ==
    {"repetitive", "unhelpful", "too_many_turns", "dead_end", "negative_rating",
     "obvious_wrong_answers", "missed_escalation", "dumb_questions",
     "lack_of_encouragement"}

\* IssueFlag: type and severity are kept; the free-text fields are not.
IssueFlag == [type : DOMAIN IssueTypeEnum, severity : DOMAIN SeverityLevel]

Flag(t, s) == [type |-> t, severity |-> s]

\* Sequences over S of length at most n.
SeqsUpTo(S, n) == UNION {[1..m -> S] : m \in 0..n}

None == [kind |-> "None"]
Some(v) == [kind |-> "Some", value |-> v]

\* ConversationAnalysisResult: the verdict, the flags and the two prize
\* fields; prize_reason is None or Some(text). The other fields play no part
\* in the issues.
ConversationAnalysisResult(v, fs) ==
    [overall_verdict |-> v, flags |-> fs,
     prize_candidate |-> FALSE, prize_reason |-> None]

\* Every Judgment with at most one flag.
SmallJudgments ==
    {ConversationAnalysisResult(v, fs) :
        v \in DOMAIN VerdictEnum, fs \in SeqsUpTo(IssueFlag, 1)}

\* The Judgments drawn when several conversations are analysed together: no
\* flag, two flags of different categories, and two flags of one category in
\* ascending severity. Two conversations given the same Judgment tie.
JudgmentPool ==
    {ConversationAnalysisResult("PASS", <<>>),
     ConversationAnalysisResult("FAIL",
        <<Flag("MISSED_ESCALATION", "HIGH"), Flag("DEAD_END", "MEDIUM")>>),
     ConversationAnalysisResult("FAIL",
        <<Flag("DEAD_END", "LOW"), Flag("DEAD_END", "HIGH")>>)}

\* ---------------------------------------------------- conversion to JSON
\* JSON values: a string, a boolean or null; a list is a sequence and an
\* object a function from its keys.
JsonString(s) == [json |-> "string", s |-> s]
JsonBool(b) == [json |-> "bool", b |-> b]
JsonNull == [json |-> "null"]

\* A dump that writes enum members by their names, as str() of the members
\* would, instead of their values.
model_dump_member_names(result) ==
    [overall_verdict |-> JsonString(result.overall_verdict),
     flags |-> [k \in 1..Len(result.flags) |->
                  [type |-> JsonString(result.flags[k].type),
                   severity |-> JsonString(result.flags[k].severity)]],
     prize_candidate |-> JsonBool(result.prize_candidate),
     prize_reason |-> IF result.prize_reason = None THEN JsonNull
                      ELSE JsonString(result.prize_reason.value)]

\* result.model_dump(mode="json"): enum members become their values, None
\* becomes null.
model_dump(result) ==
    [overall_verdict |-> JsonString(VerdictEnum[result.overall_verdict]),
     flags |-> [k \in 1..Len(result.flags) |->
                  [type |-> JsonString(IssueTypeEnum[result.flags[k].type]),
                   severity |->
                       JsonString(SeverityLevel[result.flags[k].severity])]],
     prize_candidate |-> JsonBool(result.prize_candidate),
     prize_reason |-> IF result.prize_reason = None THEN JsonNull
                      ELSE JsonString(result.prize_reason.value)]

\* The member of an enum that has the given JSON value, None when there is
\* none.
EnumMember(enum, value) ==
    IF value.json = "string" /\ \E m \in DOMAIN enum : enum[m] = value.s
    THEN Some(CHOOSE m \in DOMAIN enum : enum[m] = value.s)
    ELSE None

\* ConversationAnalysisResult.model_validate(data): overall_verdict and
\* prize_candidate have no default, flags defaults to the empty list and
\* prize_reason to None. None stands for the ValidationError.
model_validate(data) ==
    LET has(key) == key \in DOMAIN data
        fs == IF has("flags") THEN data.flags ELSE <<>>
        flagOk(f) == /\ {"type", "severity"} \subseteq DOMAIN f
                     /\ EnumMember(IssueTypeEnum, f.type) # None
                     /\ EnumMember(SeverityLevel, f.severity) # None
    IN  IF /\ has("overall_verdict")
           /\ EnumMember(VerdictEnum, data.overall_verdict) # None
           /\ has("prize_candidate")
           /\ data.prize_candidate.json = "bool"
           /\ has("prize_reason") =>
                data.prize_reason.json \in {"null", "string"}
           /\ \A k \in 1..Len(fs) : flagOk(fs[k])
        THEN Some([overall_verdict |->
                       EnumMember(VerdictEnum, data.overall_verdict).value,
                   flags |-> [k \in 1..Len(fs) |->
                       [type |-> EnumMember(IssueTypeEnum, fs[k].type).value,
                        severity |->
                            EnumMember(SeverityLevel, fs[k].severity).value]],
                   prize_candidate |-> data.prize_candidate.b,
                   prize_reason |->
                       IF has("prize_reason") /\ data.prize_reason.json = "string"
                       THEN Some(data.prize_reason.s)
                       ELSE None])
        ELSE None

\* ------------------------------------------------------- JSON as text
\* The text of a JSON file as the sequence of its tokens.
LBrace == [t |-> "{"]
RBrace == [t |-> "}"]
LBracket == [t |-> "["]
RBracket == [t |-> "]"]
Key(name) == [t |-> "key", name |-> name]
Scalar(value) == [t |-> "scalar", value |-> value]

\* The order in which model_dump lists the fields, which json.dump keeps.
FieldOrder == <<"overall_verdict", "flags", "prize_candidate", "prize_reason">>

RECURSIVE Concat(_)
Concat(texts) == IF texts = <<>> THEN <<>> ELSE Head(texts) \o Concat(Tail(texts))

\* json.dump of one element of flags.
DumpFlag(f) ==
    <<LBrace, Key("type"), Scalar(f.type),
      Key("severity"), Scalar(f.severity), RBrace>>

\* json.dump of one member of the document.
DumpMember(data, key) ==
    IF key \notin DOMAIN data THEN <<>>
    ELSE IF key = "flags"
    THEN <<Key(key), LBracket>>
           \o Concat([k \in 1..Len(data.flags) |-> DumpFlag(data.flags[k])])
           \o <<RBracket>>
    ELSE <<Key(key), Scalar(data[key])>>

\* json.dump(data, f): the text written, in the order it is written.
json_dump(data) ==
    <<LBrace>>
      \o Concat([k \in 1..Len(FieldOrder) |-> DumpMember(data, FieldOrder[k])])
      \o <<RBrace>>

\* The outcome of parsing one value: how it ended, the value, and the
\* position behind it.
Failure == [ok |-> FALSE]
Parsed(value, next) == [ok |-> TRUE, value |-> value, next |-> next]

RECURSIVE ParseValue(_, _), ParseMembers(_, _, _), ParseElements(_, _, _)
\* The value that begins at position p of the text.
ParseValue(text, p) ==
    IF p > Len(text) THEN Failure
    ELSE IF text[p].t = "scalar" THEN Parsed(text[p].value, p + 1)
    ELSE IF text[p].t = "{" THEN ParseMembers(text, p + 1, <<>>)
    ELSE IF text[p].t = "[" THEN ParseElements(text, p + 1, <<>>)
    ELSE Failure

\* The members of an object up to its closing brace.
ParseMembers(text, p, object) ==
    IF p > Len(text) THEN Failure
    ELSE IF text[p].t = "}" THEN Parsed(object, p + 1)
    ELSE IF text[p].t = "key"
    THEN LET v == ParseValue(text, p + 1)
         IN  IF v.ok
             THEN ParseMembers(text, v.next,
                      (text[p].name :> v.value) @@ object)
             ELSE Failure
    ELSE Failure

\* The elements of a list up to its closing bracket.
ParseElements(text, p, list) ==
    IF p > Len(text) THEN Failure
    ELSE IF text[p].t = "]" THEN Parsed(list, p + 1)
    ELSE LET v == ParseValue(text, p)
         IN  IF v.ok THEN ParseElements(text, v.next, Append(list, v.value))
             ELSE Failure

\* A parser that closes an object the text leaves open.
json_load_lenient(text) ==
    LET whole == ParseValue(text, 1)
        closed == ParseValue(Append(text, RBrace), 1)
    IN  IF whole.ok /\ whole.next = Len(text) + 1 THEN Some(whole.value)
        ELSE IF closed.ok /\ closed.next = Len(text) + 2 THEN Some(closed.value)
        ELSE None

\* json.load(f) of a text read: one value and nothing behind it. None
\* stands for the JSONDecodeError.
json_load(text) ==
    LET whole == ParseValue(text, 1)
    IN  IF whole.ok /\ whole.next = Len(text) + 1 THEN Some(whole.value)
        ELSE None

\* A file of conversation_analyses/: missing, holding a whole JSON document,
\* or holding something json.load rejects.
Missing == [file |-> "missing"]
Unparseable == [file |-> "unparseable"]
JsonFile(doc) == [file |-> "json", doc |-> doc]

\* A cache that never finds anything.
_load_cached_analysis_never(f) == None

\* A read that answers a file json.load rejects with a Judgment of no flag.
_load_cached_analysis_corrupt_as_empty(f) ==
    IF f.file = "missing" THEN None
    ELSE IF f.file = "unparseable"
    THEN Some(ConversationAnalysisResult("PASS", <<>>))
    ELSE model_validate(f.doc)

\* _load_cached_analysis, given the file's content.
_load_cached_analysis(f) ==
    IF f.file = "missing" THEN None
    ELSE IF f.file = "unparseable" THEN None
    ELSE model_validate(f.doc)

\* ------------------------------------------------------ _result_to_issues
issue_type_map ==
    [OBVIOUS_WRONG_ANSWER |-> IssueType.OBVIOUS_WRONG_ANSWER,
     MISSED_ESCALATION |-> IssueType.MISSED_ESCALATION,
     DUMB_QUESTION |-> IssueType.DUMB_QUESTION,
     REPETITIVE |-> IssueType.REPETITIVE,
     LACK_OF_ENCOURAGEMENT |-> IssueType.LACK_OF_ENCOURAGEMENT,
     DEAD_END |-> IssueType.DEAD_END]

\* The weights the wrong way round.
severity_map_swapped == [LOW |-> 9, MEDIUM |-> 6, HIGH |-> 3]

severity_map == [LOW |-> 3, MEDIUM |-> 6, HIGH |-> 9]

\* dict.get(key, default)
Get(map, key, default) == IF key \in DOMAIN map THEN map[key] ELSE default

\* An issue that carries the Judgment's prize_reason along.
ConversationIssue_with_prize_reason(conversation_id, result, flag) ==
    [conversation_id |-> conversation_id,
     issue_type |-> Get(issue_type_map, flag.type, IssueType.UNHELPFUL),
     severity_score |-> Get(severity_map, flag.severity, 5),
     overall_verdict |-> VerdictEnum[result.overall_verdict],
     prize_reason |-> result.prize_reason]

\* One ConversationIssue for one flag.
ConversationIssue(conversation_id, result, flag) ==
    [conversation_id |-> conversation_id,
     issue_type |-> Get(issue_type_map, flag.type, IssueType.UNHELPFUL),
     severity_score |-> Get(severity_map, flag.severity, 5),
     overall_verdict |-> VerdictEnum[result.overall_verdict]]

\* A loop that returns after its first flag.
_result_to_issues_first_flag(conversation_id, result) ==
    [k \in 1..(IF result.flags = <<>> THEN 0 ELSE 1) |->
        ConversationIssue(conversation_id, result, result.flags[k])]

_result_to_issues(conversation_id, result) ==
    [k \in 1..Len(result.flags) |->
        ConversationIssue(conversation_id, result, result.flags[k])]

\* ------------------------------------------------- categorising and sorting
\* The chain with the dead_end branch left out.
BucketOf_no_dead_end(issue) ==
    IF issue.issue_type = IssueType.OBVIOUS_WRONG_ANSWER THEN "obvious_wrong_answers"
    ELSE IF issue.issue_type = IssueType.MISSED_ESCALATION THEN "missed_escalation"
    ELSE IF issue.issue_type = IssueType.DUMB_QUESTION THEN "dumb_questions"
    ELSE IF issue.issue_type = IssueType.REPETITIVE THEN "repetitive"
    ELSE IF issue.issue_type = IssueType.LACK_OF_ENCOURAGEMENT
         THEN "lack_of_encouragement"
    ELSE "unhelpful"

\* The if/elif chain of analyze_async: the list an issue is appended to.
BucketOf(issue) ==
    IF issue.issue_type = IssueType.OBVIOUS_WRONG_ANSWER THEN "obvious_wrong_answers"
    ELSE IF issue.issue_type = IssueType.MISSED_ESCALATION THEN "missed_escalation"
    ELSE IF issue.issue_type = IssueType.DUMB_QUESTION THEN "dumb_questions"
    ELSE IF issue.issue_type = IssueType.REPETITIVE THEN "repetitive"
    ELSE IF issue.issue_type = IssueType.LACK_OF_ENCOURAGEMENT
         THEN "lack_of_encouragement"
    ELSE IF issue.issue_type = IssueType.DEAD_END THEN "dead_end"
    ELSE "unhelpful"

RECURSIVE Flatten(_)
\* for issues_list in results: for issue in issues_list
Flatten(lists) ==
    IF lists = <<>> THEN <<>> ELSE Head(lists) \o Flatten(Tail(lists))

\* The key of the sort: x.severity_score or 0.
SortKey(issue) == issue.severity_score

\* The insertion of a sort without reverse=True.
InsertDesc_ascending(sorted, x) ==
    LET ahead == {k \in 1..Len(sorted) : SortKey(sorted[k]) <= SortKey(x)}
        n == Cardinality(ahead)
    IN  SubSeq(sorted, 1, n) \o <<x>> \o SubSeq(sorted, n + 1, Len(sorted))

\* x put behind every element whose key is not smaller: what a stable
\* descending sort does with the element that came last.
InsertDesc(sorted, x) ==
    LET ahead == {k \in 1..Len(sorted) : SortKey(sorted[k]) >= SortKey(x)}
        n == Cardinality(ahead)
    IN  SubSeq(sorted, 1, n) \o <<x>> \o SubSeq(sorted, n + 1, Len(sorted))

\* No sort at all.
SortBySeverity_unsorted(issues) == issues

RECURSIVE SortBySeverity(_)
\* issue_list.sort(key=lambda x: x.severity_score or 0, reverse=True)
SortBySeverity(issues) ==
    IF issues = <<>> THEN <<>>
    ELSE InsertDesc(SortBySeverity(SubSeq(issues, 1, Len(issues) - 1)),
                    issues[Len(issues)])

\* The QualityAnalysis that analyze_async builds from the collected results.
QualityAnalysis(total, collected) ==
    LET all == Flatten(collected)
        bucket(c) == SortBySeverity(SelectSeq(all, LAMBDA x : BucketOf(x) = c))
    IN  [total_analyzed |-> total,
         repetitive |-> bucket("repetitive"),
         unhelpful |-> bucket("unhelpful"),
         too_many_turns |-> <<>>,
         dead_end |-> bucket("dead_end"),
         negative_rating |-> <<>>,
         obvious_wrong_answers |-> bucket("obvious_wrong_answers"),
         missed_escalation |-> bucket("missed_escalation"),
         dumb_questions |-> bucket("dumb_questions"),
         lack_of_encouragement |-> bucket("lack_of_encouragement")]

\* ------------------------------------------------- QualityAnalysis.to_dict
\* all_issues of to_dict: the categories concatenated in its order.
AllIssues(a) ==
    a.repetitive \o a.unhelpful \o a.too_many_turns \o a.dead_end
      \o a.negative_rating \o a.obvious_wrong_answers \o a.missed_escalation
      \o a.dumb_questions \o a.lack_of_encouragement

RECURSIVE SumSeverity(_)
SumSeverity(issues) ==
    IF issues = <<>> THEN 0
    ELSE Head(issues).severity_score + SumSeverity(Tail(issues))

\* The summary of to_dict; average_severity, a quotient of two integers, is
\* kept as the pair <<sum, count>>. None when no summary is added.
Summary(a) ==
    LET all == AllIssues(a)
    IN  IF all = <<>> THEN None
        ELSE Some([conversations_with_issues |->
                       Cardinality({all[k].conversation_id : k \in 1..Len(all)}),
                   average_severity |-> <<SumSeverity(all), Len(all)>>,
                   total_issues_found |-> Len(all)])

\* The cut of sorted(...)[:20].
TOP_OFFENDERS == 20

\* issue.severity_score is not None: the rule-based issues carry no score.
Scored(issues) == SelectSeq(issues, LAMBDA x : "severity_score" \in DOMAIN x)

\* The first issues of all_issues as they stand, not sorted.
TopOffenders_unsorted(a) ==
    SubSeq(Scored(AllIssues(a)), 1,
           IF Len(Scored(AllIssues(a))) < TOP_OFFENDERS
           THEN Len(Scored(AllIssues(a))) ELSE TOP_OFFENDERS)

\* top_offenders of to_dict: sorted(scored issues, key=severity_score,
\* reverse=True)[:20].
TopOffenders(a) ==
    LET sorted == SortBySeverity(Scored(AllIssues(a)))
    IN  SubSeq(sorted, 1,
               IF Len(sorted) < TOP_OFFENDERS THEN Len(sorted) ELSE TOP_OFFENDERS)

\* ---------------------------------------------------------------- the state
VARIABLES
    conversations,    \* the list passed to analyze_async (conversation IDs)
    max_concurrency,  \* self.max_concurrency
    no_cache,         \* self.no_cache
    judge_answer,     \* the Judgment the Judge returns for a conversation
    judge_plan,       \* which of the Judge's calls for a conversation raise
    judge_calls,      \* Judge calls made so far per conversation, all runs
    files,            \* conversation_analyses/<id>.json per conversation
    semaphore,        \* free slots of self.semaphore
    tasks,            \* one _analyze_single_conversation task per list element
    done_queue,       \* finished tasks not yet yielded by as_completed
    results,          \* results of analyze_async
    completed_count,  \* completed_count of analyze_async
    status,           \* "idle" before analyze_async is called, then "running",
                      \* "returned" or "raised"
    analysis,         \* the QualityAnalysis returned, None before
    run,              \* which invocation of analyze_async this is
    files_at_start,   \* files when this run began
    calls_at_start    \* judge_calls when this run began

\* One record of conversation_analyses/ at the level of the file system.
VARIABLES
    disk,             \* whether the file exists, and its text
    writer,           \* the task that judges the conversation and saves it
    reader,           \* a _load_cached_analysis of another process
    persisted,        \* the Judgment last written completely, None if none
                      \* was or a write that failed has since left none
    known             \* every Judgment written completely or being written

\* The analyze command, and a payload put through the readers of a record.
VARIABLES
    cli,              \* the options, the position and the effects of the command
    probe             \* a payload and what each reader made of it

vars ==
    <<conversations, max_concurrency, no_cache, judge_answer, judge_plan,
      judge_calls, files, semaphore, tasks, done_queue, results,
      completed_count, status, analysis, run, files_at_start, calls_at_start,
      disk, writer, reader, persisted, known, cli, probe>>

config == <<conversations, max_concurrency, judge_answer, judge_plan>>

disk_vars == <<disk, writer, reader, persisted, known>>

\* What analyze_async and its tasks leave alone.
elsewhere == <<disk_vars, cli, probe>>

N == Len(conversations)
Tasks == 1..N

\* The local state of a task that has not begun.
NewTask ==
    [pc |-> "start",        \* start, acquire, call, returned, raised
     attempt |-> 1,         \* tenacity's attempt number
     reads |-> 0,           \* cache reads made
     calls |-> 0,           \* Judge calls made
     writes |-> 0,          \* cache writes attempted
     write |-> "none",      \* how the last cache write ended
     acquired |-> 0,        \* slots acquired
     released |-> 0,        \* slots released
     hit |-> FALSE,         \* the cache check found a valid record
     judgment |-> None,     \* the Judgment the issues were derived from
     failed |-> FALSE,      \* a Judge call of this task raised
     value |-> <<>>]        \* the list of issues returned

\* ------------------------------------------------------------------ Judge
JudgePlans == {"succeeds", "fails_once", "always_fails"}

JudgeError == [kind |-> "Exception"]

\* What the Judge does with its (calls_before + 1)-th call for conversation c.
Judge(c, calls_before) ==
    IF judge_plan[c] = "always_fails"
       \/ (judge_plan[c] = "fails_once" /\ calls_before = 0)
    THEN JudgeError
    ELSE Some(judge_answer[c])

\* ------------------------------------------------------------------- Init
\* Every order of the first n conversation IDs.
InputOrders(n) ==
    {s \in [1..n -> {ConvName[k] : k \in 1..n}] :
        \A a, b \in 1..n : a # b => s[a] # s[b]}

\* One conversation alone is judged with any Judgment of at most one flag or
\* of the pool, several with the pool's.
AnswersFor(n) == IF n = 1 THEN SmallJudgments \cup JudgmentPool ELSE JudgmentPool

\* A document whose flag severity is no member of SeverityLevel.
InvalidDoc ==
    [overall_verdict |-> JsonString("FAIL"),
     flags |-> <<[type |-> JsonString("DEAD_END"),
                  severity |-> JsonString("critical")]>>,
     prize_candidate |-> JsonBool(FALSE),
     prize_reason |-> JsonNull]

\* A record left by an earlier run, of a Judgment the Judge no longer gives.
EarlierFile ==
    JsonFile(model_dump(ConversationAnalysisResult("FAIL",
        <<Flag("REPETITIVE", "LOW"), Flag("REPETITIVE", "HIGH")>>)))

\* What conversation_analyses/ may hold for a conversation beforehand: every
\* kind of file for one conversation alone, no file or a valid one for several.
FilesFor(n) ==
    IF n = 1 THEN {Missing, Unparseable, JsonFile(InvalidDoc), EarlierFile}
    ELSE {Missing, EarlierFile}

\* The file, before any process has touched it, and the processes at rest.
NoFile == [exists |-> FALSE, text |-> <<>>]
FileOf(text) == [exists |-> TRUE, text |-> text]

IdleWriter ==
    [pc |-> "idle",         \* idle, check, acquire, judge, open, dump, convert,
                            \* done, terminated
     result |-> None,       \* the Judgment the task has in hand
     todo |-> <<>>,         \* the text json.dump has still to write
     calls |-> 0,           \* Judge calls of this run
     hit |-> FALSE,         \* the cache check found a valid record
     resumed |-> None,      \* what was persisted when the run before was ended
     slot |-> FALSE,        \* the task is inside async with self.semaphore
     steps |-> <<>>,        \* the steps of the pipeline taken in this run
     issues |-> None]       \* the list of issues the task returned

IdleReader ==
    [pc |-> "idle",         \* idle, read, parse, returned
     buffer |-> <<>>,       \* the text read so far
     value |-> None]        \* what _load_cached_analysis returned

CliAtRest == [pc |-> "idle"]
ProbeAtRest == [pc |-> "idle"]

DiskAtRest ==
    /\ disk = NoFile
    /\ writer = IdleWriter
    /\ reader = IdleReader
    /\ persisted = None
    /\ known = {}

\* Nothing but the analyzer is running.
AtRest == DiskAtRest /\ cli = CliAtRest /\ probe = ProbeAtRest

Init ==
    /\ AtRest
    /\ \E n \in 0..MaxConvs :
         LET listed == {ConvName[k] : k \in 1..n}
         IN  /\ conversations \in InputOrders(n)
             \* conversations outside the list play no part
             /\ \E a \in [listed -> AnswersFor(n)] :
                  judge_answer = [c \in ConvIds |->
                      IF c \in listed THEN a[c]
                      ELSE ConversationAnalysisResult("PASS", <<>>)]
             /\ \E p \in [listed -> JudgePlans] :
                  judge_plan = [c \in ConvIds |->
                      IF c \in listed THEN p[c] ELSE "succeeds"]
             /\ \E f \in [listed -> FilesFor(n)] :
                  files = [c \in ConvIds |->
                      IF c \in listed THEN f[c] ELSE Missing]
    /\ max_concurrency \in 1..MaxConcurrency
    /\ no_cache \in BOOLEAN
    /\ judge_calls = [c \in ConvIds |-> 0]
    /\ semaphore = max_concurrency
    /\ tasks = [i \in Tasks |-> NewTask]
    /\ done_queue = <<>>
    /\ results = <<>>
    /\ completed_count = 0
    /\ status = "running"
    /\ analysis = None
    /\ run = 1
    /\ files_at_start = files
    /\ calls_at_start = judge_calls

\* ------------------------------------------- _analyze_single_conversation
\* Every task given the first conversation of the list.
TaskConversation_first(i) == conversations[1]

\* [self._analyze_single_conversation(conversation=convo) for convo in
\* conversations]: the conversation of the i-th task.
TaskConversation(i) == conversations[i]
Return(v) == [kind |-> "return", value |-> v]
Raise(e) == [kind |-> "raise", value |-> e]

\* A handler that logs and lets the exception go on.
ExceptHandler_reraises(e) == Raise(e)

\* except Exception as e: logger.error(...); return []
ExceptHandler(e) == Return(<<>>)

\* tenacity's @retry around the body: a body that raised is run again while
\* attempts are left, and RetryError is raised when none is.
Retry(t, outcome) ==
    IF outcome.kind = "return"
    THEN [t EXCEPT !.pc = "returned", !.value = outcome.value]
    ELSE IF t.attempt < DEFAULT_AI_MAX_RETRIES
    THEN [t EXCEPT !.pc = "start", !.attempt = @ + 1]
    ELSE [t EXCEPT !.pc = "raised"]

\* The task's new state once its body has ended, and the queue of finished
\* tasks that as_completed yields from.
EndBody(i, t, outcome) ==
    /\ tasks' = [tasks EXCEPT ![i] = Retry(t, outcome)]
    /\ done_queue' = IF Retry(t, outcome).pc \in {"returned", "raised"}
                     THEN Append(done_queue, i) ELSE done_queue

\* A check that never reads the cache.
CacheConsulted_never == FALSE

\* if not self.no_cache: whether the cache is read at all.
CacheConsulted == ~no_cache

\* The cache check finds a record that validates: the issues come from it.
CacheHit(i) ==
    LET c == TaskConversation(i)
        cached_result == _load_cached_analysis(files[c])
    IN  /\ status = "running"
        /\ tasks[i].pc = "start"
        /\ CacheConsulted
        /\ cached_result # None
        /\ EndBody(i,
                   [tasks[i] EXCEPT !.reads = @ + 1, !.hit = TRUE,
                                    !.judgment = cached_result],
                   Return(_result_to_issues(c, cached_result.value)))
        /\ UNCHANGED <<config, elsewhere, no_cache, judge_calls, files, semaphore, results,
                       completed_count, status, analysis, run, files_at_start,
                       calls_at_start>>

\* no_cache, or no record that validates: on to the semaphore.
CacheMiss(i) ==
    LET c == TaskConversation(i)
    IN  /\ status = "running"
        /\ tasks[i].pc = "start"
        /\ ~CacheConsulted \/ _load_cached_analysis(files[c]) = None
        /\ tasks' = [tasks EXCEPT ![i].pc = "acquire",
                                  ![i].reads = IF CacheConsulted THEN @ + 1 ELSE @]
        /\ UNCHANGED <<config, elsewhere, no_cache, judge_calls, files, semaphore,
                       done_queue, results, completed_count, status, analysis,
                       run, files_at_start, calls_at_start>>

\* A gate that lets every task through.
SlotFree_always == TRUE

\* asyncio.Semaphore.acquire goes through only while a slot is free.
SlotFree == semaphore > 0

\* A slot that is never handed back.
Release_leaks(s) == s

\* A slot handed back twice, by the handler and by the exit of the block.
Release_twice(s) == s + 2

\* Leaving async with self.semaphore, by return or by exception, hands the
\* slot back.
Release(s) == s + 1

\* async with self.semaphore is entered and the request is sent.
Acquire(i) ==
    LET c == TaskConversation(i)
    IN  /\ status = "running"
        /\ tasks[i].pc = "acquire"
        /\ SlotFree
        /\ semaphore' = semaphore - 1
        /\ judge_calls' = [judge_calls EXCEPT ![c] = @ + 1]
        /\ tasks' = [tasks EXCEPT ![i].pc = "call", ![i].acquired = @ + 1,
                                  ![i].calls = @ + 1]
        /\ UNCHANGED <<config, elsewhere, no_cache, files, done_queue, results,
                       completed_count, status, analysis, run, files_at_start,
                       calls_at_start>>

\* _save_conversation_analysis: the file is opened for writing and the
\* document dumped; open may fail, and the dump may stop part way.
WriteOutcomes == {"written", "open_failed", "partial"}

\* A save that opens the file for exclusive creation: an existing record stays.
_save_conversation_analysis_keeps(old, result, how) ==
    IF how = "written" /\ old.file = "missing" THEN JsonFile(model_dump(result))
    ELSE IF how = "partial" /\ old.file = "missing" THEN Unparseable
    ELSE old

_save_conversation_analysis(old, result, how) ==
    IF how = "written" THEN JsonFile(model_dump(result))
    ELSE IF how = "open_failed" THEN old
    ELSE Unparseable

\* A save whose error gets out to the handler around the Judge call.
SaveExceptHandler_propagates(how, issues) ==
    IF how = "written" THEN Return(issues) ELSE ExceptHandler(JudgeError)

\* except Exception as e: logger.warning(...) inside
\* _save_conversation_analysis: however the write ended, the body goes on to
\* return self._result_to_issues(...).
SaveExceptHandler(how, issues) == Return(issues)

\* The Judge's answer arrives: it is saved, converted, and the slot released.
JudgeReturns(i) ==
    LET c == TaskConversation(i)
        answer == Judge(c, judge_calls[c] - 1)
    IN  /\ status = "running"
        /\ tasks[i].pc = "call"
        /\ answer # JudgeError
        /\ \E how \in WriteOutcomes :
             /\ files' = [files EXCEPT
                   ![c] = _save_conversation_analysis(@, answer.value, how)]
             /\ EndBody(i,
                        [tasks[i] EXCEPT !.writes = @ + 1, !.write = how,
                                         !.released = @ + 1, !.judgment = answer],
                        SaveExceptHandler(how,
                            _result_to_issues(c, answer.value)))
        /\ semaphore' = Release(semaphore)
        /\ UNCHANGED <<config, elsewhere, no_cache, judge_calls, results, completed_count,
                       status, analysis, run, files_at_start, calls_at_start>>

\* A handler that removes the conversation's record.
FilesAfterFailure_unlinks(fs, c) == [fs EXCEPT ![c] = Missing]

\* except Exception as e: logger.error(...); return []: no file is touched.
FilesAfterFailure(fs, c) == fs

\* The Judge call raises: the handler runs and the slot is released.
JudgeRaises(i) ==
    LET c == TaskConversation(i)
    IN  /\ status = "running"
        /\ tasks[i].pc = "call"
        /\ Judge(c, judge_calls[c] - 1) = JudgeError
        /\ semaphore' = Release(semaphore)
        /\ files' = FilesAfterFailure(files, c)
        /\ EndBody(i,
                   [tasks[i] EXCEPT !.released = @ + 1, !.failed = TRUE],
                   ExceptHandler(JudgeError))
        /\ UNCHANGED <<config, elsewhere, no_cache, judge_calls, results,
                       completed_count, status, analysis, run, files_at_start,
                       calls_at_start>>

\* ---------------------------------------------------------- analyze_async
\* for coro in tasks: the next result is awaited in the order of submission.
AsCompleted_in_submission_order ==
    \E k \in DOMAIN done_queue : done_queue[k] = completed_count + 1

\* asyncio.as_completed(tasks) yields as soon as any task has finished.
AsCompleted == done_queue # <<>>

\* for coro in asyncio.as_completed(tasks): result = await coro; ...
Collect ==
    /\ status = "running"
    /\ AsCompleted
    /\ LET i == Head(done_queue)
       IN  IF tasks[i].pc = "raised"
           THEN /\ status' = "raised"
                /\ UNCHANGED <<results, completed_count>>
           ELSE /\ results' = Append(results, tasks[i].value)
                /\ completed_count' = completed_count + 1
                /\ UNCHANGED status
    /\ done_queue' = Tail(done_queue)
    /\ UNCHANGED <<config, elsewhere, no_cache, judge_calls, files, semaphore, tasks,
                   analysis, run, files_at_start, calls_at_start>>

\* A count of the lists of issues collected that are not empty.
TotalAnalyzed_with_issues(convs, collected) ==
    Cardinality({k \in 1..Len(collected) : collected[k] # <<>>})

\* total_analyzed=len(conversations)
TotalAnalyzed(convs, collected) == Len(convs)

\* The loop has yielded every task: categorise, sort, return.
Aggregate ==
    /\ status = "running"
    /\ completed_count = N
    /\ analysis' = Some(QualityAnalysis(TotalAnalyzed(conversations, results),
                                         results))
    /\ status' = "returned"
    /\ UNCHANGED <<config, elsewhere, no_cache, judge_calls, files, semaphore, tasks,
                   done_queue, results, completed_count, run, files_at_start,
                   calls_at_start>>

\* The command is run again over the same conversations: a new analyzer, the
\* same conversation_analyses/ directory.
RunAgain ==
    /\ status = "returned"
    /\ run < MaxRuns
    /\ run' = run + 1
    /\ no_cache' \in BOOLEAN
    /\ semaphore' = max_concurrency
    /\ tasks' = [i \in Tasks |-> NewTask]
    /\ done_queue' = <<>>
    /\ results' = <<>>
    /\ completed_count' = 0
    /\ status' = "running"
    /\ analysis' = None
    /\ files_at_start' = files
    /\ calls_at_start' = judge_calls
    /\ UNCHANGED <<config, elsewhere, judge_calls, files>>

Next ==
    \/ \E i \in Tasks : CacheHit(i)
    \/ \E i \in Tasks : CacheMiss(i)
    \/ \E i \in Tasks : Acquire(i)
    \/ \E i \in Tasks : JudgeReturns(i)
    \/ \E i \in Tasks : JudgeRaises(i)
    \/ Collect
    \/ Aggregate
    \/ RunAgain

Spec == Init /\ [][Next]_vars

\* ------------------------------------------- any list of conversations
\* analyze_async takes the list as it is given: the same conversation may be
\* listed more than once.
AnyList(n) == [1..n -> ConvIds]

AnyListInit ==
    /\ AtRest
    /\ \E n \in 0..MaxConvs : conversations \in AnyList(n)
    /\ judge_answer \in [ConvIds -> JudgmentPool]
    /\ judge_plan \in [ConvIds -> {"succeeds", "always_fails"}]
    /\ files \in [ConvIds -> {Missing, EarlierFile}]
    /\ max_concurrency \in 1..MaxConcurrency
    /\ no_cache \in BOOLEAN
    /\ judge_calls = [c \in ConvIds |-> 0]
    /\ semaphore = max_concurrency
    /\ tasks = [i \in Tasks |-> NewTask]
    /\ done_queue = <<>>
    /\ results = <<>>
    /\ completed_count = 0
    /\ status = "running"
    /\ analysis = None
    /\ run = 1
    /\ files_at_start = files
    /\ calls_at_start = judge_calls

AnyListSpec == AnyListInit /\ [][Next]_vars

\* ------------------------------------------- the event loop, scheduled fairly
\* The conversations in the order of their names, each judged with the same
\* Judgment; the Judge answers or fails; no record exists before the first run.
LiveInit ==
    /\ AtRest
    /\ \E n \in 0..MaxConvs : conversations = [k \in 1..n |-> ConvName[k]]
    /\ judge_answer = [c \in ConvIds |->
          ConversationAnalysisResult("FAIL", <<Flag("DEAD_END", "HIGH")>>)]
    /\ judge_plan \in [ConvIds -> {"succeeds", "always_fails"}]
    /\ files = [c \in ConvIds |-> Missing]
    /\ max_concurrency \in 1..MaxConcurrency
    /\ no_cache \in BOOLEAN
    /\ judge_calls = [c \in ConvIds |-> 0]
    /\ semaphore = max_concurrency
    /\ tasks = [i \in Tasks |-> NewTask]
    /\ done_queue = <<>>
    /\ results = <<>>
    /\ completed_count = 0
    /\ status = "running"
    /\ analysis = None
    /\ run = 1
    /\ files_at_start = files
    /\ calls_at_start = judge_calls

\* The event loop runs every coroutine that can run; a waiter on the
\* semaphore is woken when a slot is handed back; every request to the Judge
\* is answered or fails. Whether the command is run again is up to the user.
Fairness ==
    /\ \A i \in 1..MaxConvs :
         WF_vars(i \in Tasks /\ (\/ CacheHit(i) \/ CacheMiss(i) \/ Acquire(i)
                                 \/ JudgeReturns(i) \/ JudgeRaises(i)))
    /\ WF_vars(Collect \/ Aggregate)

FairSpec == LiveInit /\ [][Next]_vars /\ Fairness

\* ------------------------------------------- Judgments with many flags
\* n flags of one type and severity.
Repeat(n, flag) == [k \in 1..n |-> flag]

\* Judgments that together hold more flags than to_dict's cut keeps.
ManyFlags ==
    {ConversationAnalysisResult("FAIL",
        Repeat(11, Flag("DEAD_END", "HIGH"))),
     ConversationAnalysisResult("FAIL",
        Repeat(10, Flag("DEAD_END", "HIGH")) \o <<Flag("REPETITIVE", "MEDIUM")>>)}

ManyFlagsInit ==
    /\ AtRest
    /\ \E n \in 0..MaxConvs : conversations \in InputOrders(n)
    /\ judge_answer \in [ConvIds -> ManyFlags]
    /\ judge_plan \in [ConvIds -> {"succeeds", "always_fails"}]
    /\ files = [c \in ConvIds |-> Missing]
    /\ max_concurrency \in 1..MaxConcurrency
    /\ no_cache = FALSE
    /\ judge_calls = [c \in ConvIds |-> 0]
    /\ semaphore = max_concurrency
    /\ tasks = [i \in Tasks |-> NewTask]
    /\ done_queue = <<>>
    /\ results = <<>>
    /\ completed_count = 0
    /\ status = "running"
    /\ analysis = None
    /\ run = 1
    /\ files_at_start = files
    /\ calls_at_start = judge_calls

ManyFlagsSpec == ManyFlagsInit /\ [][Next]_vars

\* ============================================ one record, as a file on disk
\* The task of one conversation followed through the file operations of
\* _save_conversation_analysis, with a _load_cached_analysis of another
\* process on the same file, the process being ended at any point, and the
\* command being run again.

\* What the orchestrator's variables are while one task is followed.
OneTask ==
    /\ conversations = <<"c1">>
    /\ max_concurrency = 1
    /\ judge_answer = [c \in ConvIds |-> ConversationAnalysisResult("PASS", <<>>)]
    /\ judge_plan = [c \in ConvIds |-> "succeeds"]
    /\ judge_calls = [c \in ConvIds |-> 0]
    /\ files = [c \in ConvIds |-> Missing]
    /\ semaphore = max_concurrency
    /\ tasks = [i \in Tasks |-> NewTask]
    /\ done_queue = <<>>
    /\ results = <<>>
    /\ completed_count = 0
    /\ status = "running"
    /\ analysis = None
    /\ files_at_start = files
    /\ calls_at_start = judge_calls

orchestrator_vars ==
    <<config, judge_calls, files, semaphore, tasks, done_queue, results,
      completed_count, status, analysis, files_at_start, calls_at_start>>

\* The Judgments the Judge gives in these runs: they differ in every field.
DiskJudgments ==
    {[overall_verdict |-> "PASS", flags |-> <<Flag("REPETITIVE", "LOW")>>,
      prize_candidate |-> FALSE, prize_reason |-> None],
     [overall_verdict |-> "FAIL", flags |-> <<Flag("DEAD_END", "HIGH")>>,
      prize_candidate |-> TRUE, prize_reason |-> Some("why")]}

\* The Judgment of an earlier run, whose text may be on disk beforehand.
EarlierJudgment ==
    [overall_verdict |-> "FAIL", flags |-> <<Flag("DUMB_QUESTION", "MEDIUM")>>,
     prize_candidate |-> FALSE, prize_reason |-> Some("")]

EarlierText == json_dump(model_dump(EarlierJudgment))

\* Beforehand the file is missing, or holds the whole text of the earlier
\* Judgment, or the beginning of it that a write which stopped part way left.
DiskInit ==
    /\ OneTask
    /\ no_cache \in BOOLEAN
    /\ run = 1
    /\ \/ disk = NoFile /\ persisted = None /\ known = {}
       \/ /\ disk = FileOf(EarlierText)
          /\ persisted = Some(EarlierJudgment)
          /\ known = {EarlierJudgment}
       \/ \E k \in 0..(Len(EarlierText) - 1) :
            /\ disk = FileOf(SubSeq(EarlierText, 1, k))
            /\ persisted = None
            /\ known = {}
    /\ writer = [IdleWriter EXCEPT !.pc = "check"]
    /\ reader = IdleReader
    /\ cli = CliAtRest
    /\ probe = ProbeAtRest

\* The file as _load_cached_analysis meets it, given the text read from it.
FileRead(exists, text) ==
    IF ~exists THEN Missing
    ELSE IF json_load(text) = None THEN Unparseable
    ELSE JsonFile(json_load(text).value)

\* if not self.no_cache: cached_result = self._load_cached_analysis(...)
WriterCheck ==
    LET cached_result == _load_cached_analysis(FileRead(disk.exists, disk.text))
    IN  /\ writer.pc = "check"
        /\ IF CacheConsulted /\ cached_result # None
           THEN writer' = [writer EXCEPT !.pc = "convert", !.hit = TRUE,
                                         !.result = cached_result,
                                         !.steps = Append(@, "cache-check")]
           ELSE writer' = [writer EXCEPT !.pc = "acquire",
                                         !.steps = Append(@, "cache-check")]
        /\ UNCHANGED <<orchestrator_vars, cli, probe, no_cache, run, disk, reader,
                       persisted, known>>

\* async with self.semaphore: the only task takes the slot.
WriterAcquire ==
    /\ writer.pc = "acquire"
    /\ writer' = [writer EXCEPT !.pc = "judge", !.slot = TRUE,
                                !.steps = Append(@, "acquire")]
    /\ UNCHANGED <<orchestrator_vars, cli, probe, no_cache, run, disk, reader,
                   persisted, known>>

\* A task that converts the Judgment without saving it.
AfterInvoke_converts == "convert"

\* self._save_conversation_analysis(...) is what follows the Judge's answer.
AfterInvoke == "open"

\* The Judge call: it returns a Judgment, or raises and the task returns []
\* from the handler, leaving async with.
WriterJudge ==
    /\ writer.pc = "judge"
    /\ \/ \E j \in DiskJudgments :
            /\ writer' = [writer EXCEPT !.pc = AfterInvoke, !.result = Some(j),
                                        !.calls = @ + 1,
                                        !.steps = Append(@, "invoke")]
            /\ known' = known \cup {j}
       \/ /\ writer' = [writer EXCEPT !.pc = "done", !.calls = @ + 1,
                                      !.steps = Append(@, "invoke"),
                                      !.slot = FALSE, !.issues = Some(<<>>)]
          /\ UNCHANGED known
    /\ UNCHANGED <<orchestrator_vars, cli, probe, no_cache, run, disk, reader, persisted>>

\* output_path.open("w"): the file is created or cut to nothing; or open
\* raises, the file stays as it is and the save logs a warning.
WriterOpen ==
    /\ writer.pc = "open"
    /\ \/ /\ disk' = FileOf(<<>>)
          /\ writer' = [writer EXCEPT
                 !.pc = "dump",
                 !.todo = json_dump(model_dump(writer.result.value)),
                 !.steps = Append(@, "persist")]
       \/ /\ writer' = [writer EXCEPT !.pc = "convert",
                                      !.steps = Append(@, "persist")]
          /\ UNCHANGED disk
    /\ UNCHANGED <<orchestrator_vars, cli, probe, no_cache, run, reader, persisted, known>>

\* json.dump: the next piece of the text reaches the file, the last one when
\* the file is closed; or the write raises, what is written stays and the
\* save logs a warning.
WriterDump ==
    /\ writer.pc = "dump"
    /\ \/ /\ disk' = FileOf(Append(disk.text, Head(writer.todo)))
          /\ IF Len(writer.todo) = 1
             THEN /\ writer' = [writer EXCEPT !.pc = "convert", !.todo = <<>>]
                  /\ persisted' = writer.result
             ELSE /\ writer' = [writer EXCEPT !.todo = Tail(@)]
                  /\ UNCHANGED persisted
       \/ /\ writer' = [writer EXCEPT !.pc = "convert", !.todo = <<>>]
          /\ persisted' = None
          /\ UNCHANGED disk
    /\ UNCHANGED <<orchestrator_vars, cli, probe, no_cache, run, reader, known>>

\* return self._result_to_issues(conversation=conversation, result=...),
\* which leaves async with if the task is inside it.
WriterConvert ==
    /\ writer.pc = "convert"
    /\ writer' = [writer EXCEPT
           !.pc = "done",
           !.slot = FALSE,
           !.steps = Append(@, "convert"),
           !.issues = Some(_result_to_issues("c1", writer.result.value))]
    /\ UNCHANGED <<orchestrator_vars, cli, probe, no_cache, run, disk, reader,
                   persisted, known>>

\* The process is ended while analyze_async is at work.
Terminate ==
    /\ writer.pc \in {"check", "acquire", "judge", "open", "dump", "convert"}
    /\ writer' = [writer EXCEPT !.pc = "terminated", !.todo = <<>>,
                                !.slot = FALSE]
    /\ UNCHANGED <<orchestrator_vars, cli, probe, no_cache, run, disk, reader, persisted,
                   known>>

\* The command is run again on the same directory.
NextRun ==
    /\ writer.pc \in {"done", "terminated"}
    /\ run < MaxRuns
    /\ run' = run + 1
    /\ no_cache' \in BOOLEAN
    /\ writer' = [IdleWriter EXCEPT
           !.pc = "check",
           !.resumed = IF writer.pc = "terminated" THEN persisted ELSE None]
    \* what the ended run lost is no longer there to lose
    /\ persisted' =
         IF _load_cached_analysis(FileRead(disk.exists, disk.text)) = persisted
         THEN persisted ELSE None
    /\ UNCHANGED <<orchestrator_vars, cli, probe, disk, reader, known>>

\* The other process: if not cache_path.exists(): return None
GetExists ==
    /\ reader.pc = "idle"
    /\ IF disk.exists
       THEN reader' = [reader EXCEPT !.pc = "read"]
       ELSE reader' = [reader EXCEPT !.pc = "returned", !.value = None]
    /\ UNCHANGED <<orchestrator_vars, cli, probe, no_cache, run, disk, writer, persisted,
                   known>>

\* f.read() of json.load: each read gives what the file holds behind the
\* reader's position, and the first read that gives nothing ends it.
GetRead ==
    LET chunk == SubSeq(disk.text, Len(reader.buffer) + 1, Len(disk.text))
    IN  /\ reader.pc = "read"
        /\ IF chunk = <<>>
           THEN reader' = [reader EXCEPT !.pc = "parse"]
           ELSE reader' = [reader EXCEPT !.buffer = @ \o chunk]
        /\ UNCHANGED <<orchestrator_vars, cli, probe, no_cache, run, disk, writer,
                       persisted, known>>

\* json.load and model_validate of what was read, inside try/except.
GetParse ==
    /\ reader.pc = "parse"
    /\ reader' = [reader EXCEPT
           !.pc = "returned",
           !.value = _load_cached_analysis(FileRead(TRUE, reader.buffer))]
    /\ UNCHANGED <<orchestrator_vars, cli, probe, no_cache, run, disk, writer, persisted,
                   known>>

DiskNext ==
    \/ WriterCheck
    \/ WriterAcquire
    \/ WriterJudge
    \/ WriterOpen
    \/ WriterDump
    \/ WriterConvert
    \/ Terminate
    \/ NextRun
    \/ GetExists
    \/ GetRead
    \/ GetParse

DiskSpec == DiskInit /\ [][DiskNext]_vars

\* ------------------------------------------------------ the analyze command
EXIT_CODE_ERROR == 1
DEFAULT_NEGATIVE_RATING_THRESHOLD == 3
DEFAULT_EXCESSIVE_TURNS_THRESHOLD == 3

\* Conversation.rating is an int or None; len(convo.messages).
Ratings == {None, Some(2), Some(3)}
MessageCounts == {3, 4}

\* An issue of the rule-based analyzer: no severity, no verdict.
RuleIssue(conversation_id, issue_type) ==
    [conversation_id |-> conversation_id, issue_type |-> issue_type]

\* ConversationAnalyzer.analyze: a rating below the threshold and more
\* messages than the threshold are flagged; the other categories stay empty.
analyze(convs, rating, messages) ==
    LET negative(c) == /\ rating[c] # None
                       /\ rating[c].value < DEFAULT_NEGATIVE_RATING_THRESHOLD
        excessive(c) == messages[c] > DEFAULT_EXCESSIVE_TURNS_THRESHOLD
        issues(keep(_), type) ==
            LET kept == SelectSeq(convs, keep)
            IN  [k \in 1..Len(kept) |-> RuleIssue(kept[k], type)]
    IN  [total_analyzed |-> Len(convs),
         repetitive |-> <<>>,
         unhelpful |-> <<>>,
         too_many_turns |-> issues(excessive, IssueType.TOO_MANY_TURNS),
         dead_end |-> <<>>,
         negative_rating |-> issues(negative, IssueType.NEGATIVE_RATING),
         obvious_wrong_answers |-> <<>>,
         missed_escalation |-> <<>>,
         dumb_questions |-> <<>>,
         lack_of_encouragement |-> <<>>]

\* The first n conversations, as conversations/ or the API holds them.
Listing(n) == [k \in 1..n |-> ConvName[k]]

\* The command line: --use-ai, a key given or not, --report-only,
\* --no-cache-conversations.
CliOptions ==
    [use_ai : BOOLEAN, api_key : BOOLEAN, report_only : BOOLEAN,
     no_cache_conversations : BOOLEAN]

\* The command as it starts with options o, the conversations/ folder
\* holding cache, the API serving api, and the conversations' ratings and
\* message counts.
CliStart(o, cache, api, rating, messages) ==
    [pc |-> "start",
     use_ai |-> o.use_ai,
     api_key |-> o.api_key,
     report_only |-> o.report_only,
     no_cache_conversations |-> o.no_cache_conversations,
     cache |-> cache,
     api |-> api,
     rating |-> rating,
     messages |-> messages,
     loaded |-> FALSE,             \* conversations were loaded from the cache
     fetched |-> FALSE,            \* fetch_all was called
     conversations_file |-> None,  \* what save_conversations wrote
     rule_analysis |-> None,       \* what ConversationAnalyzer.analyze returned
     reports |-> FALSE,            \* generate_report was called
     aggregate |-> None,           \* what aggregate_conversation_analyses gave
     report_conversations |-> None, \* ReportGenerator.conversations
     exit_code |-> 0]              \* of the process, once pc = "exit"

CliInit ==
    /\ DiskAtRest
    /\ probe = ProbeAtRest
    /\ \E o \in CliOptions, n \in 0..MaxConvs, m \in {0, MaxConvs} :
         \E r \in (IF o.use_ai THEN {[c \in ConvIds |-> None]}
                   ELSE [ConvIds -> Ratings]),
            l \in (IF o.use_ai THEN {[c \in ConvIds |-> 3]}
                   ELSE [ConvIds -> MessageCounts]) :
           cli = CliStart(o, Listing(n), Listing(m), r, l)
    /\ conversations = <<>>
    /\ judge_answer = [c \in ConvIds |->
          ConversationAnalysisResult("FAIL", <<Flag("DEAD_END", "HIGH")>>)]
    /\ judge_plan \in (IF cli.use_ai THEN [ConvIds -> {"succeeds", "always_fails"}]
                       ELSE {[c \in ConvIds |-> "succeeds"]})
    /\ files \in (IF cli.use_ai THEN [ConvIds -> {Missing, EarlierFile}]
                  ELSE {[c \in ConvIds |-> Missing]})
    /\ max_concurrency \in 1..MaxConcurrency
    /\ no_cache \in BOOLEAN
    /\ judge_calls = [c \in ConvIds |-> 0]
    /\ semaphore = max_concurrency
    /\ tasks = <<>>
    /\ done_queue = <<>>
    /\ results = <<>>
    /\ completed_count = 0
    /\ status = "idle"
    /\ analysis = None
    /\ run = 1
    /\ files_at_start = files
    /\ calls_at_start = judge_calls

analyzer_vars ==
    <<max_concurrency, no_cache, judge_answer, judge_plan, judge_calls, files,
      semaphore, tasks, done_queue, results, completed_count, status, analysis,
      run, files_at_start, calls_at_start>>

\* A loader that takes the document as it is.
_validate_conversation_as_is(data) == data

\* ReportGenerator._validate_conversation: data.setdefault(...) for the keys
\* the document may lack.
_validate_conversation(data) ==
    data @@ [flags |-> <<>>,
             overall_verdict |-> JsonString("UNKNOWN"),
             prize_candidate |-> JsonBool(FALSE)]

\* Analysis files that are never looked for.
HasAnalyses_always(fs) == TRUE

\* analyses_dir.exists() and list(analyses_dir.glob("*.json")) is not empty.
HasAnalyses(fs) == \E c \in ConvIds : fs[c] # Missing

\* The conversations whose analysis file json.load reads.
Loadable(fs) == {c \in ConvIds : fs[c].file = "json"}

KeyError == [kind |-> "KeyError"]

\* aggregate_conversation_analyses: an empty DataFrame when there is no
\* file; else one row per file that loads, sorted by overall_score, which
\* a DataFrame without rows has no column of.
aggregate_conversation_analyses(fs) ==
    IF ~HasAnalyses(fs) THEN Some({})
    ELSE IF Loadable(fs) = {} THEN KeyError
    ELSE Some(Loadable(fs))

\* ReportGenerator._load_conversations: the documents that load, with the
\* defaults filled in; none when the directory is absent or empty.
_load_conversations(fs) ==
    [c \in Loadable(fs) |-> _validate_conversation(fs[c].doc)]

\* raise typer.Exit(code=...), or the end of the command.
Exit(code) == [cli EXCEPT !.pc = "exit", !.exit_code = code]

\* if report_only: without analysis files the command exits with an error,
\* else the reports are generated and the command returns.
ReportOnly ==
    /\ cli.pc = "start"
    /\ cli.report_only
    /\ IF ~HasAnalyses(files)
       THEN cli' = Exit(EXIT_CODE_ERROR)
       ELSE cli' = [Exit(0) EXCEPT
                      !.reports = TRUE,
                      !.report_conversations = Some(_load_conversations(files))]
    /\ UNCHANGED <<conversations, analyzer_vars, disk_vars, probe>>

\* if not no_cache_conversations: conversations = load_all_from_cache();
\* without cached conversations, or with the cache bypassed, the API is next.
LoadAllFromCache ==
    /\ cli.pc = "start"
    /\ ~cli.report_only
    /\ IF ~cli.no_cache_conversations /\ cli.cache # <<>>
       THEN /\ conversations' = cli.cache
            /\ cli' = [cli EXCEPT !.pc = "loaded", !.loaded = TRUE]
       ELSE /\ cli' = [cli EXCEPT !.pc = "fetch"]
            /\ UNCHANGED conversations
    /\ UNCHANGED <<analyzer_vars, disk_vars, probe>>

\* conversations = await fetcher.fetch_all(...): the pages arrive, or a
\* request fails and the command's handler exits with an error.
FetchAll ==
    /\ cli.pc = "fetch"
    /\ \/ /\ conversations' = cli.api
          /\ cli' = [cli EXCEPT !.pc = "loaded", !.fetched = TRUE]
       \/ /\ cli' = [Exit(EXIT_CODE_ERROR) EXCEPT !.fetched = TRUE]
          /\ UNCHANGED conversations
    /\ UNCHANGED <<analyzer_vars, disk_vars, probe>>

\* storage.save_conversations(conversations=conversations, ...)
SaveConversations ==
    /\ cli.pc = "loaded"
    /\ cli' = [cli EXCEPT !.pc = "saved",
                          !.conversations_file = Some(conversations)]
    /\ UNCHANGED <<conversations, analyzer_vars, disk_vars, probe>>

\* if use_ai: if not openai_api_key: raise typer.Exit(code=EXIT_CODE_ERROR)
MissingKey ==
    /\ cli.pc = "saved"
    /\ cli.use_ai
    /\ ~cli.api_key
    /\ cli' = Exit(EXIT_CODE_ERROR)
    /\ UNCHANGED <<conversations, analyzer_vars, disk_vars, probe>>

\* ai_analyzer = AIConversationAnalyzer(...);
\* await ai_analyzer.analyze_async(conversations=conversations) begins.
StartAnalyzer ==
    /\ cli.pc = "saved"
    /\ cli.use_ai
    /\ cli.api_key
    /\ cli' = [cli EXCEPT !.pc = "analysing"]
    /\ tasks' = [i \in Tasks |-> NewTask]
    /\ status' = "running"
    /\ UNCHANGED <<config, no_cache, judge_calls, files, semaphore, done_queue,
                   results, completed_count, analysis, run, files_at_start,
                   calls_at_start, disk_vars, probe>>

\* analyze_async has returned: the CSVs are written and the reports
\* generated; an error of the aggregation ends the command with an error.
GenerateReports ==
    /\ cli.pc = "analysing"
    /\ status = "returned"
    /\ LET df == aggregate_conversation_analyses(files)
       IN  IF df = KeyError
           THEN cli' = [Exit(EXIT_CODE_ERROR) EXCEPT !.aggregate = df]
           ELSE cli' = [Exit(0) EXCEPT
                          !.aggregate = df,
                          !.reports = TRUE,
                          !.report_conversations =
                              Some(_load_conversations(files))]
    /\ UNCHANGED <<conversations, analyzer_vars, disk_vars, probe>>

\* else: analysis_result = analyzer.analyze(conversations=conversations),
\* saved as JSON and CSV.
RuleBased ==
    /\ cli.pc = "saved"
    /\ ~cli.use_ai
    /\ cli' = [Exit(0) EXCEPT
                 !.rule_analysis =
                     Some(analyze(conversations, cli.rating, cli.messages))]
    /\ UNCHANGED <<conversations, analyzer_vars, disk_vars, probe>>

CliNext ==
    \/ ReportOnly
    \/ LoadAllFromCache
    \/ FetchAll
    \/ SaveConversations
    \/ MissingKey
    \/ StartAnalyzer
    \/ \E i \in Tasks : CacheHit(i)
    \/ \E i \in Tasks : CacheMiss(i)
    \/ \E i \in Tasks : Acquire(i)
    \/ \E i \in Tasks : JudgeReturns(i)
    \/ \E i \in Tasks : JudgeRaises(i)
    \/ Collect
    \/ Aggregate
    \/ GenerateReports
    \/ RuleBased

CliSpec == CliInit /\ [][CliNext]_vars

\* ------------------------------------------- the readers of a stored record
\* The Judgments whose documents are read, with and without a prize.
ProbeJudgments ==
    {[j EXCEPT !.prize_candidate = p, !.prize_reason = r] :
        j \in {ConversationAnalysisResult("PASS", <<>>),
               ConversationAnalysisResult("FAIL", <<Flag("DEAD_END", "HIGH")>>),
               ConversationAnalysisResult("FAIL",
                   <<Flag("REPETITIVE", "LOW"),
                     Flag("MISSED_ESCALATION", "MEDIUM")>>)},
        p \in BOOLEAN,
        r \in {None, Some(""), Some("why")}}

\* The document with only the given keys.
Restrict(data, keys) == [k \in keys |-> data[k]]

\* The documents conversation_analyses/ may hold: a Judgment's dump, whole
\* or with some of its keys absent.
ProbePayloads ==
    {Restrict(model_dump(j), keys) :
        j \in ProbeJudgments, keys \in SUBSET {FieldOrder[k] : k \in DOMAIN FieldOrder}}

ProbeStart(payload) ==
    [pc |-> "start",
     payload |-> payload,
     cache_read |-> FALSE,   \* the task body has consulted the cache
     hit |-> FALSE,          \* if cached_result: the body returned its issues
     cached_result |-> None,
     issues |-> <<>>,
     report_read |-> FALSE,  \* _load_conversations has loaded the document
     report |-> None]

ReadersInit ==
    /\ OneTask
    /\ no_cache = FALSE
    /\ run = 1
    /\ DiskAtRest
    /\ cli = CliAtRest
    /\ \E payload \in ProbePayloads : probe = ProbeStart(payload)

\* cached_result = self._load_cached_analysis(...); if cached_result:
\* return self._result_to_issues(...)
ProbeCacheRead ==
    LET cached_result == _load_cached_analysis(JsonFile(probe.payload))
    IN  /\ probe.pc = "start"
        /\ ~probe.cache_read
        /\ probe' = [probe EXCEPT
              !.cache_read = TRUE,
              !.cached_result = cached_result,
              !.hit = CacheConsulted /\ cached_result # None,
              !.issues = IF CacheConsulted /\ cached_result # None
                         THEN _result_to_issues("c1", cached_result.value)
                         ELSE <<>>]
        /\ UNCHANGED <<orchestrator_vars, no_cache, run, disk_vars, cli>>

\* data = json.load(f); validated_data = self._validate_conversation(data, ...)
ProbeReportLoad ==
    /\ probe.pc = "start"
    /\ ~probe.report_read
    /\ probe' = [probe EXCEPT
          !.report_read = TRUE,
          !.report = Some(_validate_conversation(probe.payload))]
    /\ UNCHANGED <<orchestrator_vars, no_cache, run, disk_vars, cli>>

ReadersNext == ProbeCacheRead \/ ProbeReportLoad

ReadersSpec == ReadersInit /\ [][ReadersNext]_vars

\* ================================================================= claims
\* Helpers of the claims.
Range(s) == {s[k] : k \in DOMAIN s}

BagOfSeq(s) == [x \in Range(s) |-> Cardinality({k \in DOMAIN s : s[k] = x})]

\* The tasks whose Judge call is in flight: inside async with, not yet out.
InFlight == {i \in Tasks : tasks[i].pc = "call"}

Ended(i) == tasks[i].pc \in {"returned", "raised"}

\* The issues of conversation c in the returned aggregate, all categories.
IssuesOf(c) ==
    SelectSeq(AllIssues(analysis.value), LAMBDA x : x.conversation_id = c)

\* C1: in every reachable state the number of Judge calls in flight is at
\* most max_concurrency, whatever the number of conversations.
C1_BoundedConcurrency ==
    /\ Cardinality(InFlight) <= max_concurrency
    /\ semaphore >= 0

\* The gate is full while another task waits for a slot.
C1_Witness ==
    /\ Cardinality(InFlight) = max_concurrency
    /\ \E i \in Tasks : tasks[i].pc = "acquire"
    /\ N >= max_concurrency

\* C2: a conversation is given up only after DEFAULT_AI_MAX_RETRIES Judge
\* calls have raised, and a conversation whose first Judge call raises and
\* whose second would succeed ends with the Judgment of the second call
\* written and its issues returned.
C2_RetriedUpToMaxAttempts ==
    \A i \in Tasks :
        LET c == conversations[i]
        IN  /\ (Ended(i) /\ tasks[i].failed /\ tasks[i].judgment = None)
                => tasks[i].calls = DEFAULT_AI_MAX_RETRIES
            /\ (Ended(i) /\ tasks[i].failed /\ judge_plan[c] = "fails_once")
                => /\ tasks[i].calls = 2
                   /\ tasks[i].judgment = Some(judge_answer[c])
                   /\ tasks[i].writes = 1
                   /\ tasks[i].value = _result_to_issues(c, judge_answer[c])

\* C3: no exception escapes analyze_async, and in the aggregate it returns a
\* conversation whose Judge call raised has no issue while a conversation
\* whose Judge call succeeded has exactly the issues of its own Judgment.
C3_FailureIsolated ==
    /\ status # "raised"
    /\ \A i \in Tasks : tasks[i].pc # "raised"
    /\ status = "returned" =>
         \A i \in Tasks :
            LET c == conversations[i]
            IN  /\ tasks[i].failed => IssuesOf(c) = <<>>
                /\ (tasks[i].calls > 0 /\ ~tasks[i].failed) =>
                      BagOfSeq(IssuesOf(c))
                        = BagOfSeq(_result_to_issues(c, judge_answer[c]))

\* analyze_async has returned after one conversation's Judge call raised and
\* another's succeeded with flags.
C3_Witness ==
    /\ status = "returned"
    /\ \E x, y \in Tasks :
         /\ tasks[x].failed /\ judge_plan[conversations[x]] = "always_fails"
         /\ tasks[y].calls > 0 /\ ~tasks[y].failed
         /\ judge_plan[conversations[y]] = "succeeds"
         /\ IssuesOf(conversations[y]) # <<>>

\* The record holds a document that passes the schema.
ValidRecord(f) == f.file = "json" /\ model_validate(f.doc) # None

\* C4 as stated: in a second run with caching enabled the Judge is invoked
\* for no conversation and every record stays what the first run left.
C4_Original ==
    (run > 1 /\ ~no_cache) =>
        \A i \in Tasks :
            LET c == conversations[i]
            IN  /\ tasks[i].calls = 0
                /\ files[c] = files_at_start[c]

\* C4 as amended: in a second run with caching enabled, for every conversation
\* whose record the first run left valid, the Judge is not invoked and the
\* record stays what the first run left.
C4_RerunIdempotent ==
    (run > 1 /\ ~no_cache) =>
        \A i \in Tasks :
            LET c == conversations[i]
            IN  ValidRecord(files_at_start[c]) =>
                    /\ tasks[i].calls = 0
                    /\ judge_calls[c] = calls_at_start[c]
                    /\ files[c] = files_at_start[c]

\* A second run with caching enabled has returned, having served from the
\* cache a Judgment that the first run obtained from the Judge and wrote.
C4_Witness ==
    /\ run > 1 /\ ~no_cache /\ status = "returned"
    /\ \E i \in Tasks :
         LET c == conversations[i]
         IN  /\ tasks[i].hit
             /\ judge_calls[c] = 1
             /\ files_at_start[c] = JsonFile(model_dump(judge_answer[c]))
             /\ tasks[i].value # <<>>

\* C5 as stated: with no_cache, when analyze_async has returned, no task has
\* read the cache, every task has invoked the Judge exactly once, and every
\* conversation's record is the Judgment obtained in this run.
C5_Original ==
    (no_cache /\ status = "returned") =>
        \A i \in Tasks :
            LET c == conversations[i]
            IN  /\ tasks[i].reads = 0
                /\ tasks[i].calls = 1
                /\ tasks[i].judgment # None
                /\ files[c] = JsonFile(model_dump(tasks[i].judgment.value))

\* C5 as amended: with no_cache no task ever reads the cache; when
\* analyze_async has returned every task has invoked the Judge exactly once,
\* a task whose Judge call succeeded has attempted one write, and where that
\* write completed the record is the Judgment obtained in this run; a task
\* whose Judge call raised has written nothing and its record is unchanged.
C5_CacheBypass ==
    no_cache =>
        \A i \in Tasks :
            LET c == conversations[i]
            IN  /\ tasks[i].reads = 0
                /\ ~tasks[i].hit
                /\ status = "returned" =>
                     /\ tasks[i].calls = 1
                     /\ ~tasks[i].failed =>
                          /\ tasks[i].writes = 1
                          /\ tasks[i].judgment = Some(judge_answer[c])
                          /\ tasks[i].write = "written" =>
                               files[c] = JsonFile(model_dump(judge_answer[c]))
                     /\ tasks[i].failed =>
                          /\ tasks[i].writes = 0
                          /\ files[c] = files_at_start[c]

\* A run with no_cache has returned, having replaced a valid earlier record
\* by the Judgment of this run.
C5_Witness ==
    /\ no_cache /\ status = "returned"
    /\ \E i \in Tasks :
         LET c == conversations[i]
         IN  /\ files_at_start[c] = EarlierFile
             /\ tasks[i].write = "written"
             /\ files[c] # files_at_start[c]

\* The Judgment conversation c yields in this run, from what is fixed when
\* the run begins: the valid record if the cache is read, else the Judge's
\* answer to its next call.
ExpectedJudgment(c) ==
    IF ~no_cache /\ ValidRecord(files_at_start[c])
    THEN model_validate(files_at_start[c].doc)
    ELSE Judge(c, calls_at_start[c])

ExpectedIssues(c) ==
    IF ExpectedJudgment(c).kind = "Some"
    THEN _result_to_issues(c, ExpectedJudgment(c).value)
    ELSE <<>>

\* The aggregate of the conversations taken in the order c1, c2, ... and
\* completing in that order.
CanonicalAnalysis ==
    QualityAnalysis(N, [k \in 1..N |-> ExpectedIssues(ConvName[k])])

Severities(issues) == [k \in DOMAIN issues |-> issues[k].severity_score]

\* C6: whatever the order of the input list and the order in which the tasks
\* complete, the returned QualityAnalysis has the total, the multiset of
\* issues and the sequence of severities of every category, and the summary
\* statistics of the aggregate of the canonical order.
C6_OrderIndependent ==
    status = "returned" =>
        LET a == analysis.value
            e == CanonicalAnalysis
        IN  /\ a.total_analyzed = e.total_analyzed
            /\ \A cat \in Categories :
                 /\ BagOfSeq(a[cat]) = BagOfSeq(e[cat])
                 /\ Severities(a[cat]) = Severities(e[cat])
            /\ Summary(a) = Summary(e)

\* analyze_async has returned with results collected in another order than
\* the canonical one, two conversations sharing a category.
C6_Witness ==
    /\ status = "returned"
    /\ N = 2
    /\ results # [k \in 1..N |-> ExpectedIssues(ConvName[k])]
    /\ \A k \in 1..N : results[k] # <<>>
    /\ Len(analysis.value.dead_end) >= 3
    /\ analysis.value.dead_end # CanonicalAnalysis.dead_end

\* C7: in the returned QualityAnalysis every category is non-increasing in
\* severity_score.
C7_SeverityOrdered ==
    status = "returned" =>
        \A cat \in Categories :
            LET b == analysis.value[cat]
            IN  \A i, j \in DOMAIN b :
                    i < j => b[i].severity_score >= b[j].severity_score

\* A category holds a severity-9 issue ahead of a severity-3 issue although
\* the collected results had them the other way round.
C7_Witness ==
    /\ status = "returned"
    /\ LET b == analysis.value.dead_end
           f == SelectSeq(Flatten(results), LAMBDA x : BucketOf(x) = "dead_end")
       IN  /\ Len(b) >= 3
           /\ b[1].severity_score = 9 /\ b[Len(b)].severity_score = 3
           /\ f[1].severity_score = 3

\* The category each issue type belongs to; any other type belongs to
\* unhelpful.
CategoryOfType ==
    [obvious_wrong_answer |-> "obvious_wrong_answers",
     missed_escalation |-> "missed_escalation",
     dumb_question |-> "dumb_questions",
     repetitive |-> "repetitive",
     lack_of_encouragement |-> "lack_of_encouragement",
     dead_end |-> "dead_end"]

\* C8: the bucket of an issue is decided by its type alone, any type outside
\* the six named ones going to unhelpful; and in the returned QualityAnalysis
\* every issue produced is in exactly one bucket, the one of its type.
C8_OneBucketByType ==
    /\ \A m \in DOMAIN IssueType :
         BucketOf([issue_type |-> IssueType[m]])
           = Get(CategoryOfType, IssueType[m], "unhelpful")
    /\ status = "returned" =>
         LET a == analysis.value
         IN  /\ BagOfSeq(AllIssues(a)) = BagOfSeq(Flatten(results))
             /\ \A cat \in Categories : \A k \in DOMAIN a[cat] :
                  Get(CategoryOfType, a[cat][k].issue_type, "unhelpful") = cat

\* The returned aggregate holds issues in two different buckets.
C8_Witness ==
    /\ status = "returned"
    /\ analysis.value.missed_escalation # <<>>
    /\ Len(analysis.value.dead_end) >= 2

ExpectedIssueType ==
    [OBVIOUS_WRONG_ANSWER |-> "obvious_wrong_answer",
     MISSED_ESCALATION |-> "missed_escalation",
     DUMB_QUESTION |-> "dumb_question",
     REPETITIVE |-> "repetitive",
     LACK_OF_ENCOURAGEMENT |-> "lack_of_encouragement",
     DEAD_END |-> "dead_end"]

ExpectedSeverity == [LOW |-> 3, MEDIUM |-> 6, HIGH |-> 9]

ScenarioFlags == <<Flag("MISSED_ESCALATION", "HIGH"), Flag("DEAD_END", "MEDIUM")>>

\* C9: a task's issues are one per flag of its Judgment, in flag order, with
\* the conversation's ID, the flag's issue type and severity 3, 6 or 9 for
\* low, medium, high; and a conversation judged with one high
\* MISSED_ESCALATION flag and one medium DEAD_END flag has exactly one issue
\* of severity 9 in missed_escalation, exactly one of severity 6 in dead_end
\* and none in any other category.
C9_OneIssuePerFlag ==
    \A i \in Tasks :
        LET c == conversations[i]
            t == tasks[i]
        IN  (t.pc = "returned" /\ t.judgment # None) =>
              /\ Len(t.value) = Len(t.judgment.value.flags)
              /\ \A k \in DOMAIN t.value :
                   LET flag == t.judgment.value.flags[k]
                   IN  /\ t.value[k].conversation_id = c
                       /\ t.value[k].issue_type = ExpectedIssueType[flag.type]
                       /\ t.value[k].severity_score = ExpectedSeverity[flag.severity]
              /\ (status = "returned" /\ t.judgment.value.flags = ScenarioFlags) =>
                   LET a == analysis.value
                       mine(cat) == SelectSeq(a[cat], LAMBDA x : x.conversation_id = c)
                   IN  /\ Len(mine("missed_escalation")) = 1
                       /\ mine("missed_escalation")[1].severity_score = 9
                       /\ Len(mine("dead_end")) = 1
                       /\ mine("dead_end")[1].severity_score = 6
                       /\ \A cat \in Categories \ {"missed_escalation", "dead_end"} :
                            mine(cat) = <<>>

\* analyze_async has returned with c1 judged by the scenario's two flags.
C9_Witness ==
    /\ status = "returned"
    /\ \E i \in Tasks :
         /\ conversations[i] = "c1"
         /\ tasks[i].calls = 1
         /\ tasks[i].judgment # None
         /\ tasks[i].judgment.value.flags = ScenarioFlags

\* C10: with caching enabled, a task whose conversation has a record that
\* validates never waits for or holds a slot, never invokes the Judge, never
\* writes the cache, and returns the issues of the cached Judgment.
C10_CacheHitSkipsJudge ==
    ~no_cache =>
        \A i \in Tasks :
            LET c == conversations[i]
            IN  ValidRecord(files_at_start[c]) =>
                  /\ tasks[i].pc \in {"start", "returned"}
                  /\ tasks[i].acquired = 0
                  /\ tasks[i].calls = 0
                  /\ tasks[i].writes = 0
                  /\ files[c] = files_at_start[c]
                  /\ tasks[i].pc = "returned" =>
                       tasks[i].value =
                         _result_to_issues(c,
                            model_validate(files_at_start[c].doc).value)

\* A task has returned issues from a cached Judgment that differs from what
\* the Judge would answer.
C10_Witness ==
    \E i \in Tasks :
        LET c == conversations[i]
        IN  /\ ~no_cache
            /\ tasks[i].hit
            /\ tasks[i].pc = "returned"
            /\ tasks[i].value # <<>>
            /\ judge_plan[c] = "succeeds"
            /\ tasks[i].value # _result_to_issues(c, judge_answer[c])

\* C11: a cache read never fails the conversation: _load_cached_analysis
\* returns None for a missing record, for an unparseable one and for one
\* that fails the schema, and with caching enabled a task whose record is
\* one of these is no cache hit, never raises, reads once, then waits for a
\* slot and invokes the Judge exactly once.
C11_CacheReadNeverFails ==
    /\ \A f \in {Missing, Unparseable, JsonFile(InvalidDoc)} :
         _load_cached_analysis(f) = None
    /\ status # "raised"
    /\ ~no_cache =>
         \A i \in Tasks :
            LET c == conversations[i]
                t == tasks[i]
            IN  ~ValidRecord(files_at_start[c]) =>
                  /\ ~t.hit
                  /\ t.pc # "raised"
                  /\ t.pc # "start" => t.reads = 1
                  /\ t.pc = "acquire" => t.calls = 0
                  /\ t.pc \in {"call", "returned"} =>
                       /\ t.acquired = 1
                       /\ t.calls = 1
                       /\ judge_calls[c] = calls_at_start[c] + 1

\* With caching enabled, analyze_async has returned the issues the Judge gave
\* for a conversation whose record was unparseable or failed the schema.
C11_Witness ==
    /\ ~no_cache /\ status = "returned"
    /\ \E i \in Tasks :
         LET c == conversations[i]
         IN  /\ files_at_start[c] \in {Unparseable, JsonFile(InvalidDoc)}
             /\ tasks[i].reads = 1
             /\ tasks[i].calls = 1
             /\ tasks[i].judgment = Some(judge_answer[c])
             /\ IssuesOf(c) # <<>>

\* C12: a cache write that fails does not fail the conversation: the task
\* returns the issues of the Judgment it obtained, nothing is raised, the
\* issues are in the aggregate analyze_async returns, and only the record is
\* missing: a failed open leaves the file as it was, a dump that stops part
\* way leaves no loadable record.
C12_WriteFailureTolerated ==
    /\ status # "raised"
    /\ \A i \in Tasks :
         LET c == conversations[i]
             t == tasks[i]
         IN  t.write \in {"open_failed", "partial"} =>
               /\ t.pc = "returned"
               /\ t.judgment = Some(judge_answer[c])
               /\ t.value = _result_to_issues(c, judge_answer[c])
               /\ t.write = "open_failed" => files[c] = files_at_start[c]
               /\ t.write = "partial" => ~ValidRecord(files[c])
               /\ status = "returned" =>
                    BagOfSeq(IssuesOf(c))
                      = BagOfSeq(_result_to_issues(c, judge_answer[c]))

\* analyze_async has returned with the issues of a conversation whose write
\* failed, and no loadable record of it exists.
C12_Witness ==
    /\ status = "returned"
    /\ \E i \in Tasks :
         LET c == conversations[i]
         IN  /\ tasks[i].write \in {"open_failed", "partial"}
             /\ ~ValidRecord(files[c])
             /\ Len(IssuesOf(c)) >= 2

\* C13: a get of the record by another process returns None or a Judgment
\* that was written completely or is being written, never anything else,
\* whatever the writer does to the file meanwhile.
C13_AtomicPut ==
    (reader.pc = "returned" /\ reader.value # None) =>
        reader.value.value \in known

\* C14: when the process is ended, the Judgment last persisted completely is
\* still what the record holds, and the next run with caching enabled serves
\* it as a cache hit without a Judge call.
C14_ResumableAfterAbort ==
    /\ (writer.pc = "terminated" /\ persisted # None) =>
         _load_cached_analysis(FileRead(disk.exists, disk.text)) = persisted
    /\ (writer.resumed # None /\ ~no_cache
          /\ writer.pc \in {"acquire", "judge", "open", "dump", "convert",
                            "done"}) =>
         /\ writer.hit
         /\ writer.calls = 0
         /\ writer.result = writer.resumed

\* The tasks with a Judge request outstanding for conversation c, and the
\* tasks that have written its record.
Outstanding(c) == {i \in Tasks : TaskConversation(i) = c /\ tasks[i].pc = "call"}
Writers(c) == {i \in Tasks : TaskConversation(i) = c /\ tasks[i].writes > 0}

DistinctIds == \A a, b \in 1..N : a # b => conversations[a] # conversations[b]

\* C15 as stated: whatever list analyze_async is given, no conversation ID
\* has two Judge requests outstanding together and none has its record
\* written by two tasks.
C15_Original ==
    \A c \in ConvIds :
        /\ Cardinality(Outstanding(c)) <= 1
        /\ Cardinality(Writers(c)) <= 1

\* C15 as amended: when the IDs of the list are pairwise distinct, no
\* conversation ID has two Judge requests outstanding together and none has
\* its record written by two tasks.
C15_OneTaskPerDistinctId ==
    DistinctIds =>
        \A c \in ConvIds :
            /\ Cardinality(Outstanding(c)) <= 1
            /\ Cardinality(Writers(c)) <= 1

\* Two conversations of distinct IDs: the request of one is outstanding
\* while the other's record has been written.
C15_Witness ==
    /\ N = 2 /\ DistinctIds
    /\ \E x, y \in Tasks :
         /\ tasks[x].pc = "call"
         /\ tasks[y].writes = 1 /\ tasks[y].write = "written"

\* C16: under fair scheduling, with every Judge call answered or failing,
\* every task waiting for a slot comes to hold one, and every run of
\* analyze_async returns with one result collected per input conversation.
C16_NoStarvation ==
    /\ \A i \in 1..MaxConvs :
         (i \in Tasks /\ tasks[i].pc = "acquire")
             ~> (i \in Tasks /\ tasks[i].pc = "call")
    /\ (status = "running")
         ~> (status = "returned" /\ completed_count = N /\ Len(results) = N)

\* A task waits for a slot while every slot is held by another task.
C16_Witness ==
    /\ semaphore = 0
    /\ \E i \in Tasks : tasks[i].pc = "acquire"
    /\ \E i \in Tasks : tasks[i].pc = "call"

\* Every category of a QualityAnalysis is empty.
EveryCategoryEmpty(a) == \A k \in Categories : a[k] = <<>>

\* C17: the QualityAnalysis returned by analyze_async, and the one returned
\* by the rule-based analyze, has total_analyzed = the number of input
\* conversations, whether they were cache hits, Judge successes or Judge
\* failures; for the empty list every category is empty; neither raises.
C17_TotalAnalyzed ==
    /\ status # "raised"
    /\ status = "returned" =>
         /\ analysis # None
         /\ analysis.value.total_analyzed = N
         /\ N = 0 => EveryCategoryEmpty(analysis.value)
    /\ (cli.pc = "exit" /\ ~cli.use_ai /\ cli.conversations_file # None) =>
         /\ cli.exit_code = 0
         /\ cli.rule_analysis # None
         /\ cli.rule_analysis.value.total_analyzed = N
         /\ N = 0 => EveryCategoryEmpty(cli.rule_analysis.value)

\* analyze_async has returned over two conversations, one a cache hit and
\* one whose Judge call failed.
C17_Witness ==
    /\ status = "returned"
    /\ N = 2
    /\ \E x, y \in Tasks : tasks[x].hit /\ tasks[y].failed
    /\ analysis.value.total_analyzed = 2

\* C20 as stated: in AI mode with no API key the command ends with exit
\* code 1, and when it has ended no conversation was fetched or loaded, no
\* conversations file was written and no conversation was analysed.
C20_FailsBeforeProcessing ==
    (cli.pc = "exit" /\ cli.use_ai /\ ~cli.api_key) =>
        /\ cli.exit_code = EXIT_CODE_ERROR
        /\ ~cli.fetched
        /\ ~cli.loaded
        /\ cli.conversations_file = None
        /\ tasks = <<>>
        /\ cli.rule_analysis = None

\* The keys of the payload; ValidBut(key): it lacks the key and satisfies
\* the schema once the key is given.
Has(key) == key \in DOMAIN probe.payload
Lacks(key) == ~Has(key)
ValidBut(key) ==
    /\ Lacks(key)
    /\ model_validate(probe.payload @@ Restrict(
           model_dump(ConversationAnalysisResult("PASS", <<>>)), {key})) # None

\* What the report loader made of the payload's key.
Reported(key, value) ==
    /\ probe.report # None
    /\ key \in DOMAIN probe.report.value
    /\ probe.report.value[key] = value

\* C18 as stated: a payload lacking flags is read as having no flags and
\* one lacking overall_verdict as having verdict "UNKNOWN", by the report
\* loader and by the cache read, where it is a hit.
C18_Original ==
    /\ (probe.report_read /\ Lacks("flags")) => Reported("flags", <<>>)
    /\ (probe.report_read /\ Lacks("overall_verdict")) =>
         Reported("overall_verdict", JsonString("UNKNOWN"))
    /\ (probe.cache_read /\ ValidBut("flags")) =>
         probe.hit /\ probe.cached_result.value.flags = <<>>
    /\ (probe.cache_read /\ ValidBut("overall_verdict")) => probe.hit

\* C18 as amended: the report loader reads a payload lacking flags as
\* having no flags and one lacking overall_verdict as having verdict
\* "UNKNOWN"; the cache read takes a payload lacking only flags as a hit
\* with no flags and no issues, and one lacking overall_verdict as no
\* record at all, a miss.
C18_DefaultsWhereRead ==
    /\ (probe.report_read /\ Lacks("flags")) => Reported("flags", <<>>)
    /\ (probe.report_read /\ Lacks("overall_verdict")) =>
         Reported("overall_verdict", JsonString("UNKNOWN"))
    /\ (probe.cache_read /\ ValidBut("flags")) =>
         /\ probe.hit
         /\ probe.cached_result.value.flags = <<>>
         /\ probe.issues = <<>>
    /\ (probe.cache_read /\ Lacks("overall_verdict")) =>
         /\ ~probe.hit
         /\ probe.cached_result = None

\* Both readers have read a payload that lacks flags and overall_verdict
\* and has the other keys.
C18_Witness ==
    /\ probe.cache_read /\ probe.report_read
    /\ Lacks("flags") /\ Lacks("overall_verdict")
    /\ Has("prize_candidate") /\ Has("prize_reason")
    /\ probe.report.value.flags = <<>>
    /\ ~probe.hit

\* C19: a payload with prize_candidate false and no prize_reason is a
\* cache hit, and its issues are those of the same payload with
\* prize_reason = "".
C19_PrizeReasonOptional ==
    (/\ probe.cache_read
     /\ Lacks("prize_reason")
     /\ Has("prize_candidate") /\ probe.payload.prize_candidate = JsonBool(FALSE)
     /\ ValidBut("prize_reason")) =>
        LET with_empty ==
                model_validate(probe.payload @@ [prize_reason |-> JsonString("")])
        IN  /\ probe.hit
            /\ probe.cached_result.value.prize_reason = None
            /\ with_empty # None
            /\ with_empty.value.prize_reason = Some("")
            /\ probe.issues = _result_to_issues("c1", with_empty.value)

\* The cache read of a payload with flags, prize_candidate false and no
\* prize_reason has yielded the issues of its flags.
C19_Witness ==
    /\ probe.cache_read
    /\ Lacks("prize_reason")
    /\ Has("prize_candidate") /\ probe.payload.prize_candidate = JsonBool(FALSE)
    /\ probe.hit
    /\ Len(probe.issues) = 2

\* conversation_analyses/ is absent or holds no file.
NoAnalysisFile == \A c \in ConvIds : files[c] = Missing

\* C21 as stated: with no analysis file, aggregate_conversation_analyses
\* and the report loader yield an empty aggregate, and so does the
\* report-only mode, which ends without an error exit.
C21_Original ==
    /\ (cli.pc = "exit" /\ cli.aggregate # None /\ NoAnalysisFile) =>
         /\ cli.aggregate = Some({})
         /\ cli.report_conversations = Some(<<>>)
         /\ cli.exit_code = 0
    /\ (cli.pc = "exit" /\ cli.report_only /\ NoAnalysisFile) =>
         /\ cli.report_conversations = Some(<<>>)
         /\ cli.exit_code = 0

\* C21 as amended: with no analysis file, aggregate_conversation_analyses
\* and the report loader yield an empty aggregate and the command ends
\* without error; the report-only mode loads nothing, generates no report
\* and ends with the error exit code.
C21_EmptyAggregate ==
    /\ (cli.pc = "exit" /\ cli.aggregate # None /\ NoAnalysisFile) =>
         /\ cli.aggregate = Some({})
         /\ cli.report_conversations = Some(<<>>)
         /\ cli.exit_code = 0
    /\ (cli.pc = "exit" /\ cli.report_only /\ NoAnalysisFile) =>
         /\ cli.report_conversations = None
         /\ ~cli.reports
         /\ cli.exit_code = EXIT_CODE_ERROR

\* The AI mode has ended over two conversations whose Judge calls failed:
\* the aggregation and the report loader met no analysis file.
C21_Witness ==
    /\ cli.pc = "exit"
    /\ N = 2
    /\ NoAnalysisFile
    /\ cli.aggregate = Some({})
    /\ cli.reports

\* The issues of a that top does not hold, counted with their multiplicity:
\* x is left out when a has more of it than top.
LeftOut(all, top) ==
    {x \in Range(all) :
        Cardinality({k \in DOMAIN all : all[k] = x})
            > Cardinality({k \in DOMAIN top : top[k] = x})}

\* C22: for a QualityAnalysis with a scored issue, the summary counts the
\* distinct conversation IDs and all the issues of all categories, and
\* top_offenders holds at most 20 scored issues, in non-increasing severity,
\* none of those left out being more severe than one that is in.
C22_SummaryAndTopOffenders ==
    (status = "returned" /\ Scored(AllIssues(analysis.value)) # <<>>) =>
        LET a == analysis.value
            all == AllIssues(a)
            top == TopOffenders(a)
        IN  /\ Summary(a) # None
            /\ Summary(a).value.conversations_with_issues =
                 Cardinality({all[k].conversation_id : k \in DOMAIN all})
            /\ Summary(a).value.total_issues_found =
                 Cardinality({<<cat, k>> \in Categories \X (1..Len(all)) :
                                 k <= Len(a[cat])})
            /\ Len(top) <= 20
            /\ Len(top) = Len(Scored(all)) \/ Len(top) = 20
            /\ \A k \in DOMAIN top :
                 Cardinality({m \in DOMAIN top : top[m] = top[k]})
                     <= Cardinality({m \in DOMAIN all : all[m] = top[k]})
            /\ \A k \in 1..(Len(top) - 1) :
                 top[k].severity_score >= top[k + 1].severity_score
            /\ \A x \in LeftOut(Scored(all), top) : \A k \in DOMAIN top :
                 x.severity_score <= top[k].severity_score

\* A QualityAnalysis with more than 20 scored issues, of two conversations
\* and two severities.
C22_Witness ==
    /\ status = "returned"
    /\ Len(AllIssues(analysis.value)) > 20
    /\ Len(TopOffenders(analysis.value)) = 20
    /\ Summary(analysis.value).value.conversations_with_issues = 2
    /\ analysis.value.repetitive # <<>>

\* C25: the multiset of top_offenders of the returned QualityAnalysis is
\* that of the aggregate of the canonical order, whatever the order of the
\* input list and the order in which the tasks complete.
C25_TopOffendersOrderIndependent ==
    status = "returned" =>
        BagOfSeq(TopOffenders(analysis.value))
            = BagOfSeq(TopOffenders(CanonicalAnalysis))

\* C23: a task in its cache-write step or in its conversion step holds no
\* slot.
C23_SlotOnlyDuringJudgeCall ==
    writer.pc \in {"open", "dump", "convert"} => ~writer.slot

\* The steps of the pipeline in their order.
Pipeline == <<"cache-check", "acquire", "invoke", "persist", "convert">>

\* steps, each taken once, in the order of the pipeline.
InPipelineOrder(steps) ==
    \E pos \in [DOMAIN steps -> DOMAIN Pipeline] :
        /\ \A k \in DOMAIN steps : Pipeline[pos[k]] = steps[k]
        /\ \A k, m \in DOMAIN steps : k < m => pos[k] < pos[m]

\* C24: the steps of a conversation's pipeline are taken in the order
\* cache-check, acquire, invoke, persist, convert; when the task has
\* returned the issues of a Judgment the Judge gave in this run, all five
\* were taken, the cache write attempted before the conversion.
C24_PipelineOrder ==
    /\ InPipelineOrder(writer.steps)
    /\ (writer.issues # None /\ writer.calls > 0 /\ writer.result # None) =>
         /\ writer.steps = Pipeline
         /\ writer.issues.value = _result_to_issues("c1", writer.result.value)

\* The task has returned the issues of a Judgment the Judge gave it, after
\* a dump that reached the file whole.
C24_Witness ==
    /\ writer.pc = "done"
    /\ writer.calls = 1
    /\ writer.issues # None /\ writer.issues.value # <<>>
    /\ persisted = writer.result
    /\ writer.steps = Pipeline

\* C26: a finished task is collected without waiting for the tasks before
\* it in the list: every finished task has been collected or is next to be,
\* each collected one counted, and collecting goes on whenever a finished
\* task is waiting.
C26_CompletionOrder ==
    status = "running" =>
        /\ completed_count = Len(results)
        /\ completed_count + Len(done_queue)
             = Cardinality({i \in Tasks : Ended(i)})
        /\ done_queue # <<>> => ENABLED Collect

\* The result of the second conversation's task has been collected and
\* counted while the first conversation's task waits for a slot or is in
\* flight.
C26_Witness ==
    /\ status = "running"
    /\ N = 2
    /\ tasks[1].pc \in {"acquire", "call"}
    /\ tasks[2].pc = "returned" /\ tasks[2].value # <<>>
    /\ done_queue = <<>>
    /\ completed_count = 1
    /\ results = <<tasks[2].value>>

\* The task has its Judgment from the Judge and its save is over.
SaveOver ==
    /\ writer.pc \in {"convert", "done"}
    /\ writer.calls > 0
    /\ writer.result # None

\* C27 as stated: once a Judgment has been saved, the cache read returns a
\* Judgment equal to it.
C27_Original ==
    SaveOver =>
        _load_cached_analysis(FileRead(disk.exists, disk.text)) = writer.result

\* C27 as amended: once a Judgment has been saved by a write that reached
\* the file whole, the cache read returns a Judgment equal to it, and a
\* later cache hit on it yields the issues the Judgment yields.
C27_RoundTrip ==
    /\ (SaveOver /\ persisted = writer.result) =>
         LET cached == _load_cached_analysis(FileRead(disk.exists, disk.text))
         IN  /\ cached = writer.result
             /\ _result_to_issues("c1", cached.value)
                  = _result_to_issues("c1", writer.result.value)
    /\ (writer.hit /\ writer.issues # None /\ persisted # None) =>
         writer.issues.value = _result_to_issues("c1", persisted.value)

\* The second run has had a cache hit on the Judgment the first run's Judge
\* gave and wrote whole, and has returned its issues.
C27_Witness ==
    /\ run = 2
    /\ writer.hit
    /\ writer.pc = "done"
    /\ persisted # None
    /\ persisted.value \in DiskJudgments
    /\ writer.issues = Some(_result_to_issues("c1", persisted.value))
    /\ writer.issues.value # <<>>

\* C28: a conversation whose Judge call failed in this run has had no cache
\* write and its record is what it was when the run began; in a run with
\* caching enabled a conversation that had no valid record when the run
\* began is judged.
C28_FailureLeavesCache ==
    \A i \in Tasks :
        LET c == conversations[i]
        IN  /\ tasks[i].failed =>
                 /\ tasks[i].writes = 0
                 /\ files[c] = files_at_start[c]
            /\ (Ended(i) /\ ~no_cache /\ ~ValidRecord(files_at_start[c])) =>
                 tasks[i].calls = 1

\* In the second run, with caching enabled, a conversation whose Judge call
\* failed in the first run is judged again, its earlier unreadable record
\* having stayed as it was.
C28_Witness ==
    /\ run = 2
    /\ ~no_cache
    /\ \E i \in Tasks :
         LET c == conversations[i]
         IN  /\ judge_plan[c] = "fails_once"
             /\ calls_at_start[c] = 1
             /\ files_at_start[c] = Unparseable
             /\ tasks[i].calls = 1
             /\ tasks[i].pc = "returned"
             /\ ~tasks[i].failed

\* C29: the free slots and the tasks holding one add up to
\* max_concurrency; a task takes a slot at most once and has handed it back
\* once when it has ended, by either path; when analyze_async has returned
\* every slot is free.
C29_SlotConservation ==
    /\ semaphore + Cardinality(InFlight) = max_concurrency
    /\ \A i \in Tasks :
         /\ tasks[i].acquired <= 1
         /\ tasks[i].pc = "call" => tasks[i].acquired = 1 /\ tasks[i].released = 0
         /\ tasks[i].pc # "call" => tasks[i].released = tasks[i].acquired
         /\ (Ended(i) /\ tasks[i].calls > 0) => tasks[i].released = 1
    /\ status = "returned" => semaphore = max_concurrency

\* analyze_async has returned with both slots free after two tasks held
\* them together, one leaving by the success path and one by the failure
\* path.
C29_Witness ==
    /\ status = "returned"
    /\ max_concurrency = 2
    /\ semaphore = 2
    /\ \E x, y \in Tasks :
         /\ tasks[x].failed /\ tasks[x].released = 1
         /\ ~tasks[y].failed /\ tasks[y].writes = 1 /\ tasks[y].released = 1

RECURSIVE FlagsObtained(_)
\* The flags of the Judgments the first n tasks obtained, counted.
FlagsObtained(n) ==
    IF n = 0 THEN 0
    ELSE (IF tasks[n].judgment = None THEN 0
          ELSE Len(tasks[n].judgment.value.flags)) + FlagsObtained(n - 1)

\* C30: the returned QualityAnalysis holds as many issues as the Judgments
\* obtained in this run hold flags, none for a conversation whose Judge
\* call failed, none in too_many_turns and negative_rating, and its issues
\* are those the tasks returned, each once.
C30_IssueConservation ==
    status = "returned" =>
        LET a == analysis.value
        IN  /\ Len(AllIssues(a)) = FlagsObtained(N)
            /\ \A i \in Tasks :
                 /\ tasks[i].failed =>
                      tasks[i].judgment = None /\ tasks[i].value = <<>>
                 /\ tasks[i].judgment # None =>
                      Len(tasks[i].value) = Len(tasks[i].judgment.value.flags)
            /\ a.too_many_turns = <<>>
            /\ a.negative_rating = <<>>
            /\ BagOfSeq(AllIssues(a))
                 = BagOfSeq(Flatten([i \in 1..N |-> tasks[i].value]))

\* analyze_async has returned over a cache hit with two flags and a failed
\* Judge call: two issues in all.
C30_Witness ==
    /\ status = "returned"
    /\ N = 2
    /\ \E x, y \in Tasks :
         /\ tasks[x].hit /\ Len(tasks[x].judgment.value.flags) = 2
         /\ tasks[y].failed
    /\ Len(AllIssues(analysis.value)) = 2

====
